---- MODULE Spec2Model ----
(***************************************************************************)
(* A model of export_clean_group.py (K8sResourceGrouper): the snapshot     *)
(* build (cache_all_resources), the per-workload closure                    *)
(* (process_workload and its resolvers) and the sanitizer (clean_yaml,      *)
(* save_resource).                                                          *)
(*                                                                          *)
(* Encoding.  A Python dict whose iteration order the code relies on        *)
(* (all_resources[kind], summary) is a record [order, obj]: the keys in     *)
(* insertion order and the mapping.  Every other mapping (metadata, labels, *)
(* spec, ...) is a function whose DOMAIN is the set of keys present; <<>>   *)
(* is the empty dict.  A Python list is a sequence.  Resource names are     *)
(* sequences of one-character strings, so that str.startswith, f-string     *)
(* concatenation, str.lower and str.rstrip are computed on characters.      *)
(* Label keys, label values and resource types are compared for equality    *)
(* only and stay atomic strings.                                            *)
(***************************************************************************)
EXTENDS Integers, Sequences, FiniteSets, TLC

\* ---------------------------------------------------------------- bounds
\* Failures injected in one run: reads (run_cmd returning ""), and calls
\* that make a directory, write a file or start helmify.
MaxFaults == 1
\* Entries of spec.ports in the sanitizer's inputs.
MaxPorts == 2
\* Subjects of one binding in the RBAC resolver's inputs.
MaxSubjects == 2
\* Rules of one Ingress, and paths of one rule, in the route resolver's inputs.
MaxRules == 2
MaxPaths == 2
\* Entries of spec.volumeClaimTemplates in the extractor's inputs.
MaxTemplates == 2

\* ------------------------------------------------------- program constants
WORKLOAD_RESOURCES == <<"deployments", "statefulsets", "cronjobs", "jobs">>

RELATED_RESOURCES ==
    <<"configmaps", "secrets", "services", "persistentvolumeclaims",
      "serviceaccounts", "roles", "rolebindings", "clusterroles",
      "clusterrolebindings", "ingresses", "routes", "networkpolicies",
      "horizontalpodautoscalers">>

CLEAN_RULES ==
    [metadata |-> {"creationTimestamp", "deletionGracePeriodSeconds",
                   "deletionTimestamp", "generation", "managedFields",
                   "resourceVersion", "selfLink", "uid", "finalizers",
                   "ownerReferences"},
     annotations |-> {"kubectl.kubernetes.io/last-applied-configuration",
                      "olm.operatorNamespace", "olm.operatorGroup",
                      "volume.kubernetes.io/selected-node",
                      "pv.kubernetes.io/bind-completed",
                      "pv.kubernetes.io/bound-by-controller",
                      "volume.beta.kubernetes.io/storage-provisioner",
                      "volume.kubernetes.io/storage-provisioner"},
     spec |-> {"clusterIP", "clusterIPs", "ipFamilies", "ipFamilyPolicy",
               "sessionAffinityConfig", "externalIPs", "externalTrafficPolicy",
               "healthCheckNodePort", "loadBalancerIP",
               "loadBalancerSourceRanges", "publishNotReadyAddresses",
               "volumeName"}]

\* ------------------------------------------------------- Python primitives
\* Python's None, as returned by dict.get without a default.
None == "None"

\* {} : the empty dict.
EmptyDict == <<>>

\* d.get(k, default)
Get(d, k, default) == IF k \in DOMAIN d THEN d[k] ELSE default

\* d.pop(k, None), for the dict that is left
Pop(d, k) == [x \in DOMAIN d \ {k} |-> d[x]]

\* for k in keys: d.pop(k, None)
PopAll(d, keys) == [x \in DOMAIN d \ keys |-> d[x]]

\* d[k] = v
Put(d, k, v) == [x \in DOMAIN d \cup {k} |-> IF x = k THEN v ELSE d[x]]

\* bool(d) of a dict
Truthy(d) == DOMAIN d # {}

\* An insertion-ordered dict: {} and d[name] = value.
EmptyODict == [order |-> <<>>, obj |-> EmptyDict]

OPut(d, name, value) ==
    [order |-> IF name \in DOMAIN d.obj THEN d.order ELSE Append(d.order, name),
     obj |-> Put(d.obj, name, value)]

\* name in d
OHas(d, name) == name \in DOMAIN d.obj

\* The elements of a sequence.
Range(s) == {s[i] : i \in 1..Len(s)}

\* The sequences that enumerate a finite set once each: the orders in which
\* Python may iterate over a set.
Orders(S) ==
    {s \in [1..Cardinality(S) -> S] : \A i, j \in 1..Cardinality(S) : s[i] = s[j] => i = j}

\* prefix + suffix on str
StartsWith(name, prefix) ==
    /\ Len(prefix) <= Len(name)
    /\ SubSeq(name, 1, Len(prefix)) = prefix

\* all(d2.get(k) == v for k, v in d1.items())
AllItemsIn(d1, d2) == \A k \in DOMAIN d1 : Get(d2, k, None) = d1[k]

\* ------------------------------------------------------------- sanitizer
\* clean_yaml, the metadata section, with the emptiness of annotations
\* tested before the system-generated ones are stripped.
clean_metadata_stale_empty(meta) ==
    LET m1 == PopAll(meta, CLEAN_RULES.metadata)
        ann == Get(m1, "annotations", EmptyDict)
        m2 == IF "annotations" \notin DOMAIN m1 THEN m1
              ELSE IF ~Truthy(ann) THEN Pop(m1, "annotations")
              ELSE [m1 EXCEPT !["annotations"] = PopAll(ann, CLEAN_RULES.annotations)]
        labels == Get(m2, "labels", EmptyDict)
    IN  IF ~Truthy(labels) THEN Pop(m2, "labels") ELSE m2

\* clean_yaml, the metadata section: the managed keys, the system-generated
\* annotations, then an empty annotations and an empty labels section.
clean_metadata(meta) ==
    LET m1 == PopAll(meta, CLEAN_RULES.metadata)
        ann == PopAll(Get(m1, "annotations", EmptyDict), CLEAN_RULES.annotations)
        m2 == IF "annotations" \notin DOMAIN m1 THEN m1
              ELSE IF ~Truthy(ann) THEN Pop(m1, "annotations")
              ELSE [m1 EXCEPT !["annotations"] = ann]
        labels == Get(m2, "labels", EmptyDict)
    IN  IF ~Truthy(labels) THEN Pop(m2, "labels") ELSE m2

\* clean_yaml, the spec section: the auto-assigned keys, and nodePort of
\* every entry of spec.ports.
clean_spec(spec) ==
    LET s1 == PopAll(spec, CLEAN_RULES.spec)
    IN  IF "ports" \in DOMAIN s1
        THEN [s1 EXCEPT !["ports"] = [i \in 1..Len(s1["ports"]) |-> Pop(s1["ports"][i], "nodePort")]]
        ELSE s1

\* clean_yaml(obj): the object it returns.  Every object of the model is a
\* mapping whose metadata, annotations, labels and spec are mappings and
\* whose spec.ports is a list, as kubectl prints them.
clean_yaml(obj) ==
    LET o1 == IF "metadata" \in DOMAIN obj
              THEN [obj EXCEPT !["metadata"] = clean_metadata(obj["metadata"])]
              ELSE obj
        o2 == Pop(o1, "status")
    IN  IF "spec" \in DOMAIN o2
        THEN [o2 EXCEPT !["spec"] = clean_spec(o2["spec"])]
        ELSE o2

\* What save_resource leaves of resource_obj: clean_yaml works in place on
\* resource_obj.copy(), a shallow copy.  The copy has its own top level, so
\* popping status does not reach resource_obj; metadata and spec (and the
\* annotations and the entries of spec.ports inside them) are the very
\* dicts of resource_obj, so what is popped from them is gone from it too.
after_shallow_clean(resource_obj) ==
    LET cleaned == clean_yaml(resource_obj)
    IN  [k \in DOMAIN resource_obj |->
            IF k \in {"metadata", "spec"} THEN cleaned[k] ELSE resource_obj[k]]

\* ------------------------------------------------------------ the state
VARIABLES
    cluster,            \* the live cluster the kubectl commands read: type -> ordered dict
    dry_run,            \* self.dry_run
    all_resources,      \* self.all_resources: type -> ordered dict name -> object
    summary,            \* self.summary: ordered dict workload_name -> list of refs
    files,              \* the export directory: path -> the object dumped there
    dirs,               \* the directories created, as paths below the working directory
    namespace_found,    \* export_all: namespace_exists() has returned True
    unread,             \* the listings and fetches that came back empty
    pc,                 \* where export_all is
    types_left,         \* cache_all_resources: the resource types still to list
    names,              \* cache_all_resources: the names of the listing still to visit
    workloads_left,     \* export_all: the workloads still to process, in loop order
    workload,           \* process_workload: its workload_type and workload_name
    stage,              \* process_workload: the block it is in
    pending,            \* process_workload: what the running for-loop has still to visit
    related_resources,  \* process_workload: its local list
    referenced,         \* process_workload: extract_referenced_resources' result
    rbac_resources,     \* process_workload: find_rbac_for_serviceaccount's result
    matching_services,  \* process_workload: find_matching_services' result
    faults,             \* the failures so far
    arg,                \* a function called on its own: its argument
    ret                 \* a function called on its own: what it returned

vars ==
    <<cluster, dry_run, all_resources, summary, files, dirs, namespace_found, unread, pc,
      types_left, names, workloads_left, workload, stage, pending, related_resources,
      referenced, rbac_resources, matching_services, faults, arg, ret>>

\* self.namespace
NAMESPACE == "ns"

\* A name that is None or absent: the code tests names for truth, and no
\* resource has the empty name.
NoName == <<>>

\* self.all_resources.get(resource_type, {})
Cached(resource_type) ==
    IF resource_type \in DOMAIN all_resources THEN all_resources[resource_type]
    ELSE EmptyODict

\* ------------------------------------------------------------ skip filters
should_skip_resource(resource_type, name) ==
    \/ resource_type = "serviceaccounts" /\ name = <<"d", "e", "f", "a", "u", "l", "t">>
    \/ /\ resource_type \in {"configmaps", "secrets"}
       /\ \/ StartsWith(name, <<"k", "u", "b", "e", "-">>)
          \/ StartsWith(name, <<"d", "e", "f", "a", "u", "l", "t", "-", "t", "o", "k", "e", "n", "-">>)
          \/ StartsWith(name, <<"s", "h", ".", "h", "e", "l", "m", ".", "r", "e", "l", "e", "a", "s", "e">>)

system_prefixes ==
    << <<"s", "y", "s", "t", "e", "m", ":">>,
       <<"c", "l", "u", "s", "t", "e", "r", "-", "a", "d", "m", "i", "n">>,
       <<"a", "d", "m", "i", "n">>,
       <<"e", "d", "i", "t">>,
       <<"v", "i", "e", "w">>,
       <<"k", "u", "b", "e", "a", "d", "m", ":">>,
       <<"n", "o", "d", "e", "-">>,
       <<"k", "u", "b", "e", "r", "n", "e", "t", "e", "s", "-">> >>

should_skip_cluster_resource(resource_type, name) ==
    \E i \in 1..Len(system_prefixes) : StartsWith(name, system_prefixes[i])

\* --------------------------------------------------- reference extractor
\* The pod template spec, at the place the workload type keeps it.
pod_spec_of(workload_obj, workload_type) ==
    LET spec == Get(workload_obj, "spec", EmptyDict)
    IN  IF workload_type \in {"deployments", "statefulsets", "jobs"}
        THEN Get(Get(spec, "template", EmptyDict), "spec", EmptyDict)
        ELSE IF workload_type = "cronjobs"
        THEN Get(Get(Get(Get(spec, "jobTemplate", EmptyDict), "spec", EmptyDict),
                     "template", EmptyDict), "spec", EmptyDict)
        ELSE EmptyDict

\* The names the volumes give under one of configMap / secret /
\* persistentVolumeClaim: an if / elif chain, so a volume counts for the
\* first of the three keys it has.
volume_refs(pod_spec, key, field) ==
    LET volumes == Get(pod_spec, "volumes", <<>>)
        first(v) == IF "configMap" \in DOMAIN v THEN "configMap"
                    ELSE IF "secret" \in DOMAIN v THEN "secret"
                    ELSE IF "persistentVolumeClaim" \in DOMAIN v THEN "persistentVolumeClaim"
                    ELSE None
    IN  {volumes[i][key][field] : i \in {j \in 1..Len(volumes) : first(volumes[j]) = key}}

\* The names the containers and initContainers give in env[].valueFrom
\* (configMapKeyRef before secretKeyRef) and envFrom[] (configMapRef before
\* secretRef).
container_refs(pod_spec, env_key, env_from_key) ==
    LET containers == Get(pod_spec, "containers", <<>>) \o Get(pod_spec, "initContainers", <<>>)
        env_first(vf) == IF "configMapKeyRef" \in DOMAIN vf THEN "configMapKeyRef"
                         ELSE IF "secretKeyRef" \in DOMAIN vf THEN "secretKeyRef"
                         ELSE None
        from_first(ef) == IF "configMapRef" \in DOMAIN ef THEN "configMapRef"
                          ELSE IF "secretRef" \in DOMAIN ef THEN "secretRef"
                          ELSE None
        envs(c) == Get(c, "env", <<>>)
        froms(c) == Get(c, "envFrom", <<>>)
    IN  UNION {
            {envs(containers[i])[j]["valueFrom"][env_key]["name"] :
                j \in {k \in 1..Len(envs(containers[i])) :
                         /\ "valueFrom" \in DOMAIN envs(containers[i])[k]
                         /\ env_first(envs(containers[i])[k]["valueFrom"]) = env_key}}
            \cup
            {froms(containers[i])[j][env_from_key]["name"] :
                j \in {k \in 1..Len(froms(containers[i])) :
                         from_first(froms(containers[i])[k]) = env_from_key}}
            : i \in 1..Len(containers)}

\* The cached PVC names that start with "<template>-<statefulset>", the
\* dash before the ordinal left out.
template_pvcs_without_last_dash(workload_obj) ==
    LET vcts == Get(Get(workload_obj, "spec", EmptyDict), "volumeClaimTemplates", <<>>)
        ss_name == Get(Get(workload_obj, "metadata", EmptyDict), "name", NoName)
        pvc_name(i) == Get(Get(vcts[i], "metadata", EmptyDict), "name", NoName)
    IN  {actual \in DOMAIN Cached("persistentvolumeclaims").obj :
            \E i \in 1..Len(vcts) :
                /\ pvc_name(i) # NoName
                /\ StartsWith(actual, pvc_name(i) \o <<"-">> \o ss_name)}

\* StatefulSet volumeClaimTemplates: the cached PVC names that start with
\* "<template>-<statefulset>-".
template_pvcs(workload_obj) ==
    LET vcts == Get(Get(workload_obj, "spec", EmptyDict), "volumeClaimTemplates", <<>>)
        ss_name == Get(Get(workload_obj, "metadata", EmptyDict), "name", NoName)
        pvc_name(i) == Get(Get(vcts[i], "metadata", EmptyDict), "name", NoName)
    IN  {actual \in DOMAIN Cached("persistentvolumeclaims").obj :
            \E i \in 1..Len(vcts) :
                /\ pvc_name(i) # NoName
                /\ StartsWith(actual, pvc_name(i) \o <<"-">> \o ss_name \o <<"-">>)}

\* The dict with its serviceaccounts entry first.
REFERENCED_TYPES_serviceaccounts_first ==
    <<"serviceaccounts", "configmaps", "secrets", "persistentvolumeclaims">>

\* The iteration order of the dict extract_referenced_resources returns.
REFERENCED_TYPES == <<"configmaps", "secrets", "persistentvolumeclaims", "serviceaccounts">>

NothingReferenced ==
    [configmaps |-> {}, secrets |-> {}, persistentvolumeclaims |-> {}, serviceaccounts |-> {}]

extract_referenced_resources(workload_obj, workload_type) ==
    LET pod_spec == pod_spec_of(workload_obj, workload_type)
        san == Get(pod_spec, "serviceAccountName", NoName)
        sa == IF san # NoName THEN san ELSE Get(pod_spec, "serviceAccount", NoName)
    IN  IF ~Truthy(pod_spec) THEN NothingReferenced
        ELSE [configmaps |->
                 volume_refs(pod_spec, "configMap", "name")
                 \cup container_refs(pod_spec, "configMapKeyRef", "configMapRef"),
              secrets |->
                 volume_refs(pod_spec, "secret", "secretName")
                 \cup container_refs(pod_spec, "secretKeyRef", "secretRef"),
              persistentvolumeclaims |->
                 volume_refs(pod_spec, "persistentVolumeClaim", "claimName")
                 \cup (IF workload_type = "statefulsets" THEN template_pvcs(workload_obj) ELSE {}),
              serviceaccounts |->
                 IF sa # NoName /\ sa # <<"d", "e", "f", "a", "u", "l", "t">> THEN {sa} ELSE {}]

\* ------------------------------------------------------- selector matcher
\* A service whose selector has a key the workload labels lack matches too.
find_matching_services_any_key(workload_obj) ==
    LET workload_labels ==
            Get(Get(Get(workload_obj, "spec", EmptyDict), "selector", EmptyDict),
                "matchLabels", EmptyDict)
        matches(svc_name) ==
            LET svc_obj == Cached("services").obj[svc_name]
                svc_selector == Get(Get(svc_obj, "spec", EmptyDict), "selector", EmptyDict)
            IN  /\ Truthy(svc_selector)
                /\ \A k \in DOMAIN svc_selector \cap DOMAIN workload_labels :
                       workload_labels[k] = svc_selector[k]
    IN  IF ~Truthy(workload_labels) THEN <<>>
        ELSE SelectSeq(Cached("services").order, matches)

find_matching_services(workload_obj) ==
    LET workload_labels ==
            Get(Get(Get(workload_obj, "spec", EmptyDict), "selector", EmptyDict),
                "matchLabels", EmptyDict)
        matches(svc_name) ==
            LET svc_obj == Cached("services").obj[svc_name]
                svc_selector == Get(Get(svc_obj, "spec", EmptyDict), "selector", EmptyDict)
            IN  Truthy(svc_selector) /\ AllItemsIn(svc_selector, workload_labels)
    IN  IF ~Truthy(workload_labels) THEN <<>>
        ELSE SelectSeq(Cached("services").order, matches)

\* The policies matched against the workload's selector instead of the
\* labels of its pod template.
find_related_networkpolicies_by_selector(workload_obj) ==
    LET workload_labels ==
            Get(Get(Get(workload_obj, "spec", EmptyDict), "selector", EmptyDict),
                "matchLabels", EmptyDict)
        matches(np_name) ==
            LET np_obj == Cached("networkpolicies").obj[np_name]
                pod_selector ==
                    Get(Get(Get(np_obj, "spec", EmptyDict), "podSelector", EmptyDict),
                        "matchLabels", EmptyDict)
            IN  Truthy(pod_selector) /\ AllItemsIn(pod_selector, workload_labels)
    IN  SelectSeq(Cached("networkpolicies").order, matches)

find_related_networkpolicies(workload_obj) ==
    LET workload_labels ==
            Get(Get(Get(Get(workload_obj, "spec", EmptyDict), "template", EmptyDict),
                    "metadata", EmptyDict), "labels", EmptyDict)
        matches(np_name) ==
            LET np_obj == Cached("networkpolicies").obj[np_name]
                pod_selector ==
                    Get(Get(Get(np_obj, "spec", EmptyDict), "podSelector", EmptyDict),
                        "matchLabels", EmptyDict)
            IN  Truthy(pod_selector) /\ AllItemsIn(pod_selector, workload_labels)
    IN  SelectSeq(Cached("networkpolicies").order, matches)

\* ---------------------------------------------------------- route resolver
\* The rules of an ingress with a path whose backend.service.name is one of
\* service_names: the inner loop over the paths ends at its first match
\* (break), the loop over the rules goes on.
matching_rules(ing_obj, service_names) ==
    LET rules == Get(Get(ing_obj, "spec", EmptyDict), "rules", <<>>)
        paths(rule) == Get(Get(rule, "http", EmptyDict), "paths", <<>>)
        backend_service(path) ==
            Get(Get(Get(path, "backend", EmptyDict), "service", EmptyDict), "name", NoName)
    IN  {i \in 1..Len(rules) :
            \E j \in 1..Len(paths(rules[i])) :
                backend_service(paths(rules[i])[j]) \in Range(service_names)}

\* n times the same element.
Repeat(x, n) == [i \in 1..n |-> x]

RECURSIVE ingress_matches(_, _)
ingress_matches(order, service_names) ==
    IF order = <<>> THEN <<>>
    ELSE Repeat([type |-> "ingresses", name |-> Head(order)],
                Cardinality(matching_rules(Cached("ingresses").obj[Head(order)], service_names)))
         \o ingress_matches(Tail(order), service_names)

find_matching_ingresses_and_routes(service_names) ==
    LET to_service(route_obj) ==
            Get(Get(Get(route_obj, "spec", EmptyDict), "to", EmptyDict), "name", NoName)
        matches(route_name) ==
            to_service(Cached("routes").obj[route_name]) \in Range(service_names)
        routes == SelectSeq(Cached("routes").order, matches)
    IN  ingress_matches(Cached("ingresses").order, service_names)
        \o [i \in 1..Len(routes) |-> [type |-> "routes", name |-> routes[i]]]

\* ------------------------------------------------------------ autoscaler
UPPERCASE ==
    <<"A", "B", "C", "D", "E", "F", "G", "H", "I", "J", "K", "L", "M",
      "N", "O", "P", "Q", "R", "S", "T", "U", "V", "W", "X", "Y", "Z">>

LOWERCASE ==
    <<"a", "b", "c", "d", "e", "f", "g", "h", "i", "j", "k", "l", "m",
      "n", "o", "p", "q", "r", "s", "t", "u", "v", "w", "x", "y", "z">>

\* str.lower()
Lower(str) ==
    [i \in 1..Len(str) |->
        IF \E k \in 1..Len(UPPERCASE) : UPPERCASE[k] = str[i]
        THEN LOWERCASE[CHOOSE k \in 1..Len(UPPERCASE) : UPPERCASE[k] = str[i]]
        ELSE str[i]]

\* str.rstrip(ch): without every trailing ch
RECURSIVE RStrip(_, _)
RStrip(str, ch) ==
    IF str # <<>> /\ str[Len(str)] = ch THEN RStrip(SubSeq(str, 1, Len(str) - 1), ch)
    ELSE str

\* The characters of a workload type.
TypeChars ==
    [deployments |-> <<"d", "e", "p", "l", "o", "y", "m", "e", "n", "t", "s">>,
     statefulsets |-> <<"s", "t", "a", "t", "e", "f", "u", "l", "s", "e", "t", "s">>,
     cronjobs |-> <<"c", "r", "o", "n", "j", "o", "b", "s">>,
     jobs |-> <<"j", "o", "b", "s">>]

\* The first autoscaler that names the workload, whatever kind it targets.
find_related_hpa_any_kind(workload_name, workload_type) ==
    LET hpas == Cached("horizontalpodautoscalers")
        targets(hpa_name) ==
            LET target_ref == Get(Get(hpas.obj[hpa_name], "spec", EmptyDict),
                                  "scaleTargetRef", EmptyDict)
            IN  Get(target_ref, "name", NoName) = workload_name
        found == SelectSeq(hpas.order, targets)
    IN  IF found = <<>> THEN NoName ELSE Head(found)

\* The first autoscaler, in the cache's order, that targets the workload; NoName for None.
find_related_hpa(workload_name, workload_type) ==
    LET hpas == Cached("horizontalpodautoscalers")
        targets(hpa_name) ==
            LET target_ref == Get(Get(hpas.obj[hpa_name], "spec", EmptyDict),
                                  "scaleTargetRef", EmptyDict)
            IN  /\ Get(target_ref, "name", NoName) = workload_name
                /\ Lower(Get(target_ref, "kind", <<>>)) = RStrip(TypeChars[workload_type], "s")
        found == SelectSeq(hpas.order, targets)
    IN  IF found = <<>> THEN NoName ELSE Head(found)

\* ---------------------------------------------------------- RBAC resolver
\* The iteration order of the dict find_rbac_for_serviceaccount returns.
RBAC_TYPES == <<"roles", "rolebindings", "clusterroles", "clusterrolebindings">>

NoRbac == [roles |-> <<>>, rolebindings |-> <<>>, clusterroles |-> <<>>, clusterrolebindings |-> <<>>]

\* A subject counts only when it names its namespace.
subject_matches_explicit_namespace(subject, sa_name) ==
    /\ Get(subject, "kind", None) = "ServiceAccount"
    /\ Get(subject, "name", NoName) = sa_name
    /\ Get(subject, "namespace", None) = NAMESPACE

subject_matches(subject, sa_name) ==
    /\ Get(subject, "kind", None) = "ServiceAccount"
    /\ Get(subject, "name", NoName) = sa_name
    /\ Get(subject, "namespace", NAMESPACE) = NAMESPACE

\* The body of the if, run once for every matching subject of a binding:
\* the binding is appended, then the role its roleRef names.  A RoleBinding
\* resolves kind Role (when cached and new) and kind ClusterRole (when new);
\* a ClusterRoleBinding resolves kind ClusterRole only.
on_matching_subject(acc, binding_type, binding_name) ==
    LET role_ref == Get(Cached(binding_type).obj[binding_name], "roleRef", EmptyDict)
        kind == Get(role_ref, "kind", None)
        role_name == Get(role_ref, "name", NoName)
        a1 == [acc EXCEPT ![binding_type] = Append(@, binding_name)]
    IN  IF binding_type = "rolebindings" /\ kind = "Role"
        THEN IF /\ role_name # NoName
                /\ OHas(Cached("roles"), role_name)
                /\ role_name \notin Range(a1.roles)
             THEN [a1 EXCEPT !.roles = Append(@, role_name)]
             ELSE a1
        ELSE IF kind = "ClusterRole"
        THEN IF role_name # NoName /\ role_name \notin Range(a1.clusterroles)
             THEN [a1 EXCEPT !.clusterroles = Append(@, role_name)]
             ELSE a1
        ELSE a1

\* for subject in subjects
RECURSIVE scan_subjects(_, _, _, _, _)
scan_subjects(acc, binding_type, binding_name, subjects, sa_name) ==
    IF subjects = <<>> THEN acc
    ELSE scan_subjects(
            IF subject_matches(Head(subjects), sa_name)
            THEN on_matching_subject(acc, binding_type, binding_name)
            ELSE acc,
            binding_type, binding_name, Tail(subjects), sa_name)

\* for name, obj in self.all_resources.get(binding_type, {}).items()
RECURSIVE scan_bindings(_, _, _, _)
scan_bindings(acc, binding_type, order, sa_name) ==
    IF order = <<>> THEN acc
    ELSE scan_bindings(
            scan_subjects(acc, binding_type, Head(order),
                          Get(Cached(binding_type).obj[Head(order)], "subjects", <<>>),
                          sa_name),
            binding_type, Tail(order), sa_name)

find_rbac_for_serviceaccount(sa_name) ==
    scan_bindings(
        scan_bindings(NoRbac, "rolebindings", Cached("rolebindings").order, sa_name),
        "clusterrolebindings", Cached("clusterrolebindings").order, sa_name)

\* ------------------------------------------------------ the live cluster
\* The ordered dict of a listing: pairs <<name, object>> in listing order.
RECURSIVE ODictOf(_)
ODictOf(pairs) ==
    IF pairs = <<>> THEN EmptyODict
    ELSE OPut(ODictOf(SubSeq(pairs, 1, Len(pairs) - 1)),
              pairs[Len(pairs)][1], pairs[Len(pairs)][2])

\* metadata as the API server returns it.
Meta(name, labels) ==
    IF Truthy(labels)
    THEN [name |-> name, namespace |-> NAMESPACE, uid |-> "uid", resourceVersion |-> "1",
          labels |-> labels]
    ELSE [name |-> name, namespace |-> NAMESPACE, uid |-> "uid", resourceVersion |-> "1"]

Plain(name, spec) == [metadata |-> Meta(name, EmptyDict), spec |-> spec]

HelmLabels == [app |-> "web"] @@ ("helm.sh/chart" :> "web-1.0")

\* The pod of deployment w: service account s; configmaps c (volume) and
\* m (envFrom of the init container, Helm-managed); secrets x (volume, not in
\* the cluster) and e (env); claim p.
WebPod ==
    [serviceAccountName |-> <<"s">>,
     volumes |-> << [name |-> "v1", configMap |-> [name |-> <<"c">>]],
                    [name |-> "v2", secret |-> [secretName |-> <<"x">>]],
                    [name |-> "v3", persistentVolumeClaim |-> [claimName |-> <<"p">>]] >>,
     containers |-> << [name |-> "app",
                        env |-> << [name |-> "K", valueFrom |-> [secretKeyRef |-> [name |-> <<"e">>]]] >>,
                        envFrom |-> << [configMapRef |-> [name |-> <<"c">>]] >>] >>,
     initContainers |-> << [name |-> "init",
                            envFrom |-> << [configMapRef |-> [name |-> <<"m">>]] >>] >>]

Deployment ==
    [metadata |-> Meta(<<"w">>, [app |-> "web"]),
     spec |-> [selector |-> [matchLabels |-> [app |-> "web"]],
               template |-> [metadata |-> [labels |-> [app |-> "web"]], spec |-> WebPod]],
     status |-> [readyReplicas |-> 1]]

\* A StatefulSet with a claim template d, whose pod reads secret e and the
\* system configmap kube-x.
StatefulSet(name) ==
    [metadata |-> Meta(name, [app |-> "db"]),
     spec |-> [selector |-> [matchLabels |-> [app |-> "db"]],
               template |-> [metadata |-> [labels |-> [app |-> "db"]],
                             spec |-> [containers |-> << [name |-> "db",
                                          envFrom |-> << [secretRef |-> [name |-> <<"e">>]],
                                                         [configMapRef |->
                                                            [name |-> <<"k", "u", "b", "e", "-", "x">>]] >>] >>]],
               volumeClaimTemplates |-> << [metadata |-> [name |-> <<"d">>]] >>],
     status |-> [readyReplicas |-> 1]]

ServiceAccountSubject(namespaces) ==
    [i \in 1..Len(namespaces) |->
        IF namespaces[i] = None THEN [kind |-> "ServiceAccount", name |-> <<"s">>]
        ELSE [kind |-> "ServiceAccount", name |-> <<"s">>, namespace |-> namespaces[i]]]

Binding(name, subjects, kind, role_name) ==
    [metadata |-> Meta(name, EmptyDict),
     subjects |-> subjects,
     roleRef |-> [apiGroup |-> "rbac.authorization.k8s.io", kind |-> kind, name |-> role_name]]

\* RoleBinding b, in the shapes a run may meet.
RoleBindingShapes ==
    [one |-> Binding(<<"b">>, ServiceAccountSubject(<<None>>), "Role", <<"r">>),
     twice |-> Binding(<<"b">>, ServiceAccountSubject(<<NAMESPACE, None>>), "Role", <<"r">>),
     elsewhere |-> Binding(<<"b">>, ServiceAccountSubject(<<"other">>), "Role", <<"r">>),
     dangling |-> Binding(<<"b">>, ServiceAccountSubject(<<None>>), "Role", <<"q">>),
     cluster |-> Binding(<<"b">>, ServiceAccountSubject(<<None>>), "ClusterRole", <<"c", "r">>)]

PathTo(service) == [path |-> "/", backend |-> [service |-> [name |-> service]]]

\* Ingress i, in the shapes a run may meet.
IngressShapes ==
    [one_rule |-> << [http |-> [paths |-> <<PathTo(<<"v">>), PathTo(<<"v">>)>>]] >>,
     two_rules |-> << [http |-> [paths |-> <<PathTo(<<"v">>)>>]],
                      [http |-> [paths |-> <<PathTo(<<"u">>), PathTo(<<"v">>)>>]] >>,
     other |-> << [http |-> [paths |-> <<PathTo(<<"u">>)>>]] >>]

StatefulSetNames == [none |-> <<>>, same |-> << <<"w">> >>, other |-> << <<"d", "b">> >>]

Cluster(binding, ingress, sts) ==
    [deployments |-> ODictOf(<< <<<<"w">>, Deployment>> >>),
     statefulsets |->
        ODictOf([i \in 1..Len(StatefulSetNames[sts]) |->
                    <<StatefulSetNames[sts][i], StatefulSet(StatefulSetNames[sts][i])>>]),
     cronjobs |-> EmptyODict,
     jobs |-> EmptyODict,
     configmaps |-> ODictOf(<<
        <<<<"c">>, [metadata |-> Meta(<<"c">>, EmptyDict), data |-> "x"]>>,
        <<<<"k", "u", "b", "e", "-", "x">>,
          [metadata |-> Meta(<<"k", "u", "b", "e", "-", "x">>, EmptyDict), data |-> "x"]>>,
        <<<<"m">>, [metadata |-> Meta(<<"m">>, HelmLabels), data |-> "x"]>> >>),
     secrets |-> ODictOf(<<
        <<<<"e">>, [metadata |-> Meta(<<"e">>, EmptyDict)
                                  @@ [annotations |->
                                        ("kubectl.kubernetes.io/last-applied-configuration" :> "{}")],
                    data |-> "x"]>>,
        <<<<"o">>, [metadata |-> Meta(<<"o">>, EmptyDict)
                                  @@ [ownerReferences |-> << [kind |-> "Certificate"] >>],
                    data |-> "x"]>> >>),
     services |-> ODictOf(<<
        <<<<"u">>, Plain(<<"u">>, [selector |-> [app |-> "web", tier |-> "x"]])>>,
        <<<<"v">>, Plain(<<"v">>, [selector |-> [app |-> "web"], clusterIP |-> "10.0.0.5",
                                   ports |-> << [port |-> 80, nodePort |-> 31000] >>])>> >>),
     persistentvolumeclaims |-> ODictOf(
        << <<<<"p">>, Plain(<<"p">>, [volumeName |-> "pv"])>> >>
        \o [i \in 1..Len(StatefulSetNames[sts]) |->
              <<<<"d", "-">> \o StatefulSetNames[sts][i] \o <<"-", "0">>,
                Plain(<<"d", "-">> \o StatefulSetNames[sts][i] \o <<"-", "0">>,
                      [volumeName |-> "pv"])>>]
        \o [i \in 1..Len(StatefulSetNames[sts]) |->
              <<<<"d", "-">> \o StatefulSetNames[sts][i] \o <<"-", "1">>,
                Plain(<<"d", "-">> \o StatefulSetNames[sts][i] \o <<"-", "1">>,
                      [volumeName |-> "pv"])>>]),
     serviceaccounts |-> ODictOf(<<
        <<<<"d", "e", "f", "a", "u", "l", "t">>,
          [metadata |-> Meta(<<"d", "e", "f", "a", "u", "l", "t">>, EmptyDict)]>>,
        <<<<"s">>, [metadata |-> Meta(<<"s">>, EmptyDict)]>> >>),
     roles |-> ODictOf(<< <<<<"r">>, [metadata |-> Meta(<<"r">>, EmptyDict), rules |-> <<>>]>> >>),
     rolebindings |-> ODictOf(<< <<<<"b">>, RoleBindingShapes[binding]>> >>),
     clusterroles |-> ODictOf(<<
        <<<<"c", "r">>, [metadata |-> [name |-> <<"c", "r">>, uid |-> "uid"], rules |-> <<>>]>>,
        <<<<"v", "i", "e", "w">>,
          [metadata |-> [name |-> <<"v", "i", "e", "w">>, uid |-> "uid"], rules |-> <<>>]>> >>),
     clusterrolebindings |-> ODictOf(<<
        <<<<"c", "b">>, Binding(<<"c", "b">>, ServiceAccountSubject(<<NAMESPACE>>),
                                "ClusterRole", <<"c", "r">>)>> >>),
     ingresses |-> ODictOf(<< <<<<"i">>, Plain(<<"i">>, [rules |-> IngressShapes[ingress]])>> >>),
     routes |-> ODictOf(<< <<<<"t">>, Plain(<<"t">>, [to |-> [kind |-> "Service", name |-> <<"v">>]])>> >>),
     networkpolicies |-> ODictOf(<<
        <<<<"n">>, Plain(<<"n">>, [podSelector |-> [matchLabels |-> [app |-> "web"]]])>> >>),
     horizontalpodautoscalers |-> ODictOf(<<
        <<<<"h">>, Plain(<<"h">>, [scaleTargetRef |->
                        [kind |-> <<"D", "e", "p", "l", "o", "y", "m", "e", "n", "t">>,
                         name |-> <<"w">>]])>> >>)]

\* The clusters a run may meet: around the one Deployment, every shape of
\* the RoleBinding, every shape of the Ingress, and a StatefulSet of the same
\* or of another name beside it.
Clusters ==
    {Cluster(binding, "one_rule", "none") : binding \in DOMAIN RoleBindingShapes}
    \cup {Cluster("one", ingress, "none") : ingress \in DOMAIN IngressShapes}
    \cup {Cluster("one", "one_rule", sts) : sts \in DOMAIN StatefulSetNames}

\* ------------------------------------------------------- snapshot build
\* The text kubectl prints for .metadata.labels holds every key and value;
\* "<marker> in labels" is a substring test on it.  Label keys and values are
\* atomic here, so the test is membership among them.
LabelsText(obj) ==
    LET labels == Get(Get(obj, "metadata", EmptyDict), "labels", EmptyDict)
    IN  DOMAIN labels \cup {labels[k] : k \in DOMAIN labels}

\* is_managed taking a failed read for a sign of management.
is_managed_fails_closed(obj, labels_read, owners_read) ==
    \/ ~labels_read
    \/ ~owners_read
    \/ "helm.sh/chart" \in LabelsText(obj)
    \/ "app.kubernetes.io/managed-by" \in LabelsText(obj)
    \/ Get(Get(obj, "metadata", EmptyDict), "ownerReferences", <<>>) # <<>>

\* is_managed, given whether its two reads succeeded: a failed read is the
\* empty text (run_cmd returns "").
is_managed(obj, labels_read, owners_read) ==
    LET labels == IF labels_read THEN LabelsText(obj) ELSE {}
        owners == IF owners_read
                  THEN Get(Get(obj, "metadata", EmptyDict), "ownerReferences", <<>>)
                  ELSE <<>>
    IN  \/ "helm.sh/chart" \in labels
        \/ "app.kubernetes.io/managed-by" \in labels
        \/ owners # <<>>

\* namespace_scoped: WORKLOAD_RESOURCES + RELATED_RESOURCES without the two
\* cluster-scoped types.
namespace_scoped ==
    LET cluster_scoped(r) == r \notin {"clusterroles", "clusterrolebindings"}
    IN  SelectSeq(WORKLOAD_RESOURCES \o RELATED_RESOURCES, cluster_scoped)

\* The number of failed reads among those made.
Failed(reads) == Cardinality({i \in 1..Len(reads) : ~reads[i]})

Idle ==
    /\ workload = [type |-> None, name |-> NoName]
    /\ stage = "idle"
    /\ pending = <<>>
    /\ related_resources = <<>>
    /\ referenced = NothingReferenced
    /\ rbac_resources = NoRbac
    /\ matching_services = <<>>

Init ==
    /\ cluster \in Clusters
    /\ dry_run \in BOOLEAN
    /\ all_resources = EmptyDict
    /\ summary = EmptyODict
    /\ files = EmptyDict
    /\ dirs = {}
    /\ namespace_found = FALSE
    /\ unread = {}
    /\ pc = "start"
    /\ types_left = <<>>
    /\ names = <<>>
    /\ workloads_left = <<>>
    /\ Idle
    /\ faults = 0
    /\ arg = None
    /\ ret = None

process_vars ==
    <<workload, stage, pending, related_resources, referenced, rbac_resources,
      matching_services>>

\* self.export_dir, the path the directories and files are kept relative to.
EXPORT_DIR == <<>>

\* export_all going on to the build whatever the namespace check returned.
NamespaceCheck_unchecked ==
    /\ pc = "start"
    /\ \E exists \in BOOLEAN : namespace_found' = exists
    /\ pc' = "cache"
    /\ types_left' = namespace_scoped
    /\ dirs' = IF dry_run THEN dirs ELSE dirs \cup {EXPORT_DIR}
    /\ UNCHANGED <<cluster, dry_run, unread, all_resources, summary, files, names,
                   workloads_left, process_vars, faults, arg, ret>>

\* export_all up to cache_all_resources: the namespace check, which ends the
\* run (sys.exit(1)) when kubectl get namespace prints nothing, then (unless
\* dry_run) the mkdir of the export directory, outside any try.
NamespaceCheck ==
    /\ pc = "start"
    /\ \E exists \in BOOLEAN :
        /\ namespace_found' = exists
        /\ IF ~exists
           THEN /\ pc' = "aborted"
                /\ UNCHANGED <<types_left, dirs, faults>>
           ELSE IF dry_run
           THEN /\ pc' = "cache"
                /\ types_left' = namespace_scoped
                /\ UNCHANGED <<dirs, faults>>
           ELSE \E made \in {TRUE} \cup (IF faults < MaxFaults THEN {FALSE} ELSE {}) :
                  IF made
                  THEN /\ pc' = "cache"
                       /\ types_left' = namespace_scoped
                       /\ dirs' = dirs \cup {EXPORT_DIR}
                       /\ UNCHANGED faults
                  ELSE /\ pc' = "export_all raised"
                       /\ faults' = faults + 1
                       /\ UNCHANGED <<types_left, dirs>>
    /\ UNCHANGED <<cluster, dry_run, unread, all_resources, summary, files, names,
                   workloads_left, process_vars, arg, ret>>

\* cache_all_resources, the head of its loop: the next resource type gets an
\* empty dict and its names are listed; a failed listing is the empty text.
ListType ==
    /\ pc = "cache"
    /\ names = <<>>
    /\ types_left # <<>>
    /\ LET resource_type == Head(types_left)
           listed == cluster[resource_type].order
       IN  /\ all_resources' = Put(all_resources, resource_type, EmptyODict)
           /\ types_left' = Tail(types_left)
           /\ \E listing_read \in BOOLEAN :
                /\ faults + Failed(<<listing_read>>) <= MaxFaults
                /\ faults' = faults + Failed(<<listing_read>>)
                /\ names' = IF listing_read
                            THEN [i \in 1..Len(listed) |->
                                    [type |-> resource_type, name |-> listed[i]]]
                            ELSE <<>>
                /\ unread' = IF listing_read THEN unread
                             ELSE unread \cup {[type |-> resource_type, name |-> NoName]}
    /\ UNCHANGED <<cluster, dry_run, dirs, namespace_found, summary, files, pc, workloads_left, process_vars, arg, ret>>

\* cache_all_resources, one name of the listing: the skip filter, the managed
\* probe (two reads), then the fetch (get_resource_yaml: None when the read
\* fails or the text does not parse).
CacheName ==
    /\ pc = "cache"
    /\ names # <<>>
    /\ LET resource_type == Head(names).type
           name == Head(names).name
           live == cluster[resource_type].obj[name]
       IN  IF should_skip_resource(resource_type, name)
           THEN UNCHANGED <<all_resources, faults, unread>>
           ELSE \E labels_read, owners_read, fetch_read \in BOOLEAN :
                  LET managed == is_managed(live, labels_read, owners_read)
                      reads == IF managed THEN <<labels_read, owners_read>>
                               ELSE <<labels_read, owners_read, fetch_read>>
                  IN  /\ faults + Failed(reads) <= MaxFaults
                      /\ faults' = faults + Failed(reads)
                      /\ all_resources' =
                            IF ~managed /\ fetch_read
                            THEN [all_resources EXCEPT ![resource_type] = OPut(@, name, live)]
                            ELSE all_resources
                      /\ unread' = IF ~managed /\ ~fetch_read
                                   THEN unread \cup {[type |-> resource_type, name |-> name]}
                                   ELSE unread
    /\ names' = Tail(names)
    /\ UNCHANGED <<cluster, dry_run, dirs, namespace_found, summary, files, pc, types_left, workloads_left,
                   process_vars, arg, ret>>

\* The workloads export_all loops over: for each workload type in order, the
\* cached workloads of the type in the cache's order.
RECURSIVE workloads_of(_)
workloads_of(types) ==
    IF types = <<>> THEN <<>>
    ELSE [i \in 1..Len(Cached(Head(types)).order) |->
            [type |-> Head(types), name |-> Cached(Head(types)).order[i]]]
         \o workloads_of(Tail(types))

\* cache_all_resources returns: export_all enters its loop over the workloads.
CacheDone ==
    /\ pc = "cache"
    /\ names = <<>>
    /\ types_left = <<>>
    /\ pc' = "workloads"
    /\ workloads_left' = workloads_of(WORKLOAD_RESOURCES)
    /\ UNCHANGED <<cluster, dry_run, dirs, namespace_found, unread, all_resources, summary, files, types_left, names,
                   process_vars, faults, arg, ret>>

\* ------------------------------------------------------- process_workload
\* workload_obj: the cached object itself, as the loop of export_all hands it over.
workload_obj == Cached(workload.type).obj[workload.name]

\* The membership test made only where the object is needed, for saving it.
in_snapshot_unchecked(resource_type, resource_name) ==
    dry_run \/ OHas(Cached(resource_type), resource_name)

\* resource_name in self.all_resources.get(resource_type, {})
in_snapshot(resource_type, resource_name) == OHas(Cached(resource_type), resource_name)

\* A for-loop's items: one resource type with names in the order visited.
Items(resource_type, name_seq) ==
    [i \in 1..Len(name_seq) |-> [type |-> resource_type, name |-> name_seq[i]]]

\* save_resource, the cache it leaves: the cached object is the resource_obj
\* the sanitizer works on through a shallow copy.
cache_after_save(resource_type, resource_name) ==
    [all_resources EXCEPT ![resource_type] =
        [@ EXCEPT !.obj = [@ EXCEPT ![resource_name] = after_shallow_clean(@)]]]

\* save_resource, the export directory it leaves: the cleaned object dumped
\* to <export_dir>/<workload_name>/<resource_type>-<resource_name>.yaml.  No
\* resource type is another one followed by "-", so the path is kept as the
\* triple it is formatted from.
files_after_save(workload_name, resource_type, resource_name) ==
    Put(files, [dir |-> workload_name, type |-> resource_type, name |-> resource_name],
        clean_yaml(Cached(resource_type).obj[resource_name]))

\* What a call of save_resource may come to.  process_workload makes the
\* call only "if not self.dry_run" ("skipped" otherwise).  In the call, mkdir
\* stands before the try and its exception leaves the run ("mkdir raised");
\* an exception of open or yaml.dump is caught and printed ("write failed").
SaveOutcomes ==
    IF dry_run THEN {"skipped"}
    ELSE {"saved"} \cup (IF faults < MaxFaults THEN {"mkdir raised", "write failed"} ELSE {})

\* save_resource with the given outcome: the directory of the workload is
\* made, the object is cleaned through a shallow copy, and the cleaned
\* object is dumped to its file.
save_resource(workload_name, resource_type, resource_name, outcome) ==
    /\ faults' = faults + (IF outcome \in {"mkdir raised", "write failed"} THEN 1 ELSE 0)
    /\ pc' = IF outcome = "mkdir raised" THEN "save_resource raised" ELSE pc
    /\ dirs' = IF outcome \in {"saved", "write failed"}
               THEN dirs \cup {EXPORT_DIR, workload_name}
               ELSE dirs
    /\ all_resources' = IF outcome \in {"saved", "write failed"}
                        THEN cache_after_save(resource_type, resource_name)
                        ELSE all_resources
    /\ files' = IF outcome = "saved"
                THEN files_after_save(workload_name, resource_type, resource_name)
                ELSE files

\* export_all's loop takes the next workload; process_workload saves it
\* (unless dry_run) and appends its own ref.
StartWorkload ==
    /\ pc = "workloads"
    /\ stage = "idle"
    /\ workloads_left # <<>>
    /\ LET w == Head(workloads_left)
       IN  \E outcome \in SaveOutcomes :
             /\ save_resource(w.name, w.type, w.name, outcome)
             /\ workload' = w
             /\ workloads_left' = Tail(workloads_left)
             /\ IF outcome = "mkdir raised"
                THEN UNCHANGED <<related_resources, stage>>
                ELSE /\ related_resources' = <<w>>
                     /\ stage' = "self"
    /\ UNCHANGED <<cluster, dry_run, namespace_found, unread, summary, types_left, names,
                   pending, referenced, rbac_resources, matching_services, arg, ret>>

\* The body of each of process_workload's for-loops: a name that is cached
\* is saved (unless dry_run) and appended; any other is passed over.
VisitPending ==
    /\ pc = "workloads"
    /\ pending # <<>>
    /\ LET item == Head(pending)
       IN  IF in_snapshot(item.type, item.name)
           THEN \E outcome \in SaveOutcomes :
                  /\ save_resource(workload.name, item.type, item.name, outcome)
                  /\ IF outcome = "mkdir raised"
                     THEN UNCHANGED <<related_resources, pending>>
                     ELSE /\ related_resources' = Append(related_resources, item)
                          /\ pending' = Tail(pending)
           ELSE /\ pending' = Tail(pending)
                /\ UNCHANGED <<related_resources, all_resources, files, dirs, faults, pc>>
    /\ UNCHANGED <<cluster, dry_run, namespace_found, unread, summary, types_left, names,
                   workloads_left, workload, stage, referenced, rbac_resources,
                   matching_services, arg, ret>>

\* extract_referenced_resources; the loop that follows visits the four types
\* in the dict's order and each set of names in an order of Python's choosing.
ExtractReferenced ==
    /\ pc = "workloads"
    /\ stage = "self"
    /\ pending = <<>>
    /\ LET r == extract_referenced_resources(workload_obj, workload.type)
       IN  /\ referenced' = r
           /\ \E o1 \in Orders(r[REFERENCED_TYPES[1]]), o2 \in Orders(r[REFERENCED_TYPES[2]]),
                 o3 \in Orders(r[REFERENCED_TYPES[3]]), o4 \in Orders(r[REFERENCED_TYPES[4]]) :
                pending' = Items(REFERENCED_TYPES[1], o1) \o Items(REFERENCED_TYPES[2], o2)
                           \o Items(REFERENCED_TYPES[3], o3) \o Items(REFERENCED_TYPES[4], o4)
    /\ stage' = "referenced"
    /\ UNCHANGED <<cluster, dry_run, dirs, namespace_found, unread, all_resources, summary, files, pc, types_left, names,
                   workloads_left, workload, related_resources, rbac_resources,
                   matching_services, faults, arg, ret>>

\* The RBAC block: for the referenced service account (the extractor adds at
\* most one), if it is cached, find_rbac_for_serviceaccount and the loop over
\* its four lists in the dict's order.
ResolveRbac ==
    /\ pc = "workloads"
    /\ stage = "referenced"
    /\ pending = <<>>
    /\ IF \E sa_name \in referenced.serviceaccounts : in_snapshot("serviceaccounts", sa_name)
       THEN LET sa_name == CHOOSE sa \in referenced.serviceaccounts : TRUE
                rbac == find_rbac_for_serviceaccount(sa_name)
            IN  /\ rbac_resources' = rbac
                /\ pending' = Items(RBAC_TYPES[1], rbac[RBAC_TYPES[1]])
                              \o Items(RBAC_TYPES[2], rbac[RBAC_TYPES[2]])
                              \o Items(RBAC_TYPES[3], rbac[RBAC_TYPES[3]])
                              \o Items(RBAC_TYPES[4], rbac[RBAC_TYPES[4]])
       ELSE UNCHANGED <<rbac_resources, pending>>
    /\ stage' = "rbac"
    /\ UNCHANGED <<cluster, dry_run, dirs, namespace_found, unread, all_resources, summary, files, pc, types_left, names,
                   workloads_left, workload, related_resources, referenced,
                   matching_services, faults, arg, ret>>

MatchServices ==
    /\ pc = "workloads"
    /\ stage = "rbac"
    /\ pending = <<>>
    /\ matching_services' = find_matching_services(workload_obj)
    /\ pending' = Items("services", matching_services')
    /\ stage' = "services"
    /\ UNCHANGED <<cluster, dry_run, dirs, namespace_found, unread, all_resources, summary, files, pc, types_left, names,
                   workloads_left, workload, related_resources, referenced, rbac_resources,
                   faults, arg, ret>>

MatchRoutes ==
    /\ pc = "workloads"
    /\ stage = "services"
    /\ pending = <<>>
    /\ pending' = find_matching_ingresses_and_routes(matching_services)
    /\ stage' = "routes"
    /\ UNCHANGED <<cluster, dry_run, dirs, namespace_found, unread, all_resources, summary, files, pc, types_left, names,
                   workloads_left, workload, related_resources, referenced, rbac_resources,
                   matching_services, faults, arg, ret>>

FindHpa ==
    /\ pc = "workloads"
    /\ stage = "routes"
    /\ pending = <<>>
    /\ LET hpa_name == find_related_hpa(workload.name, workload.type)
       IN  pending' = IF hpa_name # NoName
                      THEN Items("horizontalpodautoscalers", <<hpa_name>>)
                      ELSE <<>>
    /\ stage' = "hpa"
    /\ UNCHANGED <<cluster, dry_run, dirs, namespace_found, unread, all_resources, summary, files, pc, types_left, names,
                   workloads_left, workload, related_resources, referenced, rbac_resources,
                   matching_services, faults, arg, ret>>

MatchNetworkPolicies ==
    /\ pc = "workloads"
    /\ stage = "hpa"
    /\ pending = <<>>
    /\ pending' = Items("networkpolicies", find_related_networkpolicies(workload_obj))
    /\ stage' = "netpol"
    /\ UNCHANGED <<cluster, dry_run, dirs, namespace_found, unread, all_resources, summary, files, pc, types_left, names,
                   workloads_left, workload, related_resources, referenced, rbac_resources,
                   matching_services, faults, arg, ret>>

\* self.summary[workload_name] = related_resources; process_workload returns.
StoreSummary ==
    /\ pc = "workloads"
    /\ stage = "netpol"
    /\ pending = <<>>
    /\ summary' = OPut(summary, workload.name, related_resources)
    /\ stage' = "summary"
    /\ UNCHANGED <<cluster, dry_run, dirs, namespace_found, unread, all_resources, files, pc,
                   types_left, names, workloads_left, workload, pending, related_resources,
                   referenced, rbac_resources, matching_services, faults, arg, ret>>

\* workload_name + "-helmified"
helmified(workload_name) ==
    workload_name \o <<"-", "h", "e", "l", "m", "i", "f", "i", "e", "d">>

\* What helmify_folder may come to: nothing to do in a dry run; os.makedirs
\* stands before the try; of the exceptions of subprocess.run only
\* CalledProcessError (helmify ran and failed) is caught, so a helmify that
\* cannot be started leaves the run.
HelmifyOutcomes ==
    IF dry_run THEN {"skipped"}
    ELSE {"helmified"}
         \cup (IF faults < MaxFaults
               THEN {"makedirs raised", "helmify failed", "helmify not started"}
               ELSE {})

\* export_all's call of helmify_folder for the workload just processed, and
\* the end of the loop body.  The chart helmify writes is not part of the
\* export and is not kept.
HelmifyFolder ==
    /\ pc = "workloads"
    /\ stage = "summary"
    /\ \E outcome \in HelmifyOutcomes :
        /\ faults' = faults + (IF outcome \in {"skipped", "helmified"} THEN 0 ELSE 1)
        /\ dirs' = IF outcome \in {"skipped", "makedirs raised"} THEN dirs
                   ELSE dirs \cup {helmified(workload.name)}
        /\ IF outcome \in {"makedirs raised", "helmify not started"}
           THEN /\ pc' = "helmify_folder raised"
                /\ UNCHANGED process_vars
           ELSE /\ pc' = pc
                /\ workload' = [type |-> None, name |-> NoName]
                /\ stage' = "idle"
                /\ pending' = <<>>
                /\ related_resources' = <<>>
                /\ referenced' = NothingReferenced
                /\ rbac_resources' = NoRbac
                /\ matching_services' = <<>>
    /\ UNCHANGED <<cluster, dry_run, namespace_found, unread, all_resources, summary, files,
                   types_left, names, workloads_left, arg, ret>>

\* The loop over the workloads ends: print_summary, and the run is over.
PrintSummary ==
    /\ pc = "workloads"
    /\ stage = "idle"
    /\ workloads_left = <<>>
    /\ pc' = "done"
    /\ UNCHANGED <<cluster, dry_run, dirs, namespace_found, unread, all_resources, summary, files, types_left, names,
                   workloads_left, process_vars, faults, arg, ret>>

Next ==
    \/ NamespaceCheck
    \/ ListType
    \/ CacheName
    \/ CacheDone
    \/ StartWorkload
    \/ VisitPending
    \/ ExtractReferenced
    \/ ResolveRbac
    \/ MatchServices
    \/ MatchRoutes
    \/ FindHpa
    \/ MatchNetworkPolicies
    \/ StoreSummary
    \/ HelmifyFolder
    \/ PrintSummary

Spec == Init /\ [][Next]_vars

\* ------------------------------------------------- claims about a whole run
\* No element occurs twice in a list.
NoDuplicates(list) == \A i, j \in 1..Len(list) : list[i] = list[j] => i = j

\* The closures: those stored in the summary, and the one being built.
Closures ==
    {summary.obj[w] : w \in DOMAIN summary.obj}
    \cup (IF related_resources = <<>> THEN {} ELSE {related_resources})

\* C1: no closure stored in the summary holds a ResourceRef (type, name)
\* twice, whatever the paths that lead to the resource.
C1_ClosureHasNoDuplicate ==
    \A w \in DOMAIN summary.obj : NoDuplicates(summary.obj[w])

\* C2: every ResourceRef of every closure, stored or being built, names a
\* (type, name) that is in the snapshot; a referenced resource that is not
\* in the snapshot is never appended.
C2_ClosureWithinSnapshot ==
    \A closure \in Closures :
        \A i \in 1..Len(closure) :
            /\ closure[i].type \in DOMAIN all_resources
            /\ closure[i].name \in DOMAIN all_resources[closure[i].type].obj

\* C2's case: a run has ended with the closure of deployment w stored, and w
\* names a configmap, a secret and (through its RoleBinding) a Role that the
\* snapshot lacks.
C2_Witness ==
    /\ pc = "done"
    /\ <<"w">> \in DOMAIN summary.obj
    /\ <<"w">> \in DOMAIN Cached("deployments").obj
    /\ LET refs == extract_referenced_resources(Cached("deployments").obj[<<"w">>], "deployments")
       IN  /\ \E n \in refs.configmaps : n \notin DOMAIN Cached("configmaps").obj
           /\ \E n \in refs.secrets : n \notin DOMAIN Cached("secrets").obj
    /\ <<"b">> \in DOMAIN Cached("rolebindings").obj
    /\ [type |-> "rolebindings", name |-> <<"b">>] \in Range(summary.obj[<<"w">>])
    /\ Cached("rolebindings").obj[<<"b">>].roleRef.name \notin DOMAIN Cached("roles").obj

\* C3: once the snapshot is built, no step of the run changes it: every
\* cached object stays equal to what the build stored.
C3_SnapshotUnchangedAfterBuild ==
    [][pc = "workloads" => all_resources' = all_resources]_vars

\* C4: at every point, whatever reads failed, every entry of the snapshot is
\* free of the labels helm.sh/chart and app.kubernetes.io/managed-by, has no
\* ownerReferences, and is not a system default of the skip filter.
C4_SnapshotEntriesUnmanaged ==
    \A resource_type \in DOMAIN all_resources :
        \A name \in DOMAIN all_resources[resource_type].obj :
            LET meta == Get(all_resources[resource_type].obj[name], "metadata", EmptyDict)
            IN  /\ "helm.sh/chart" \notin DOMAIN Get(meta, "labels", EmptyDict)
                /\ "app.kubernetes.io/managed-by" \notin DOMAIN Get(meta, "labels", EmptyDict)
                /\ Get(meta, "ownerReferences", <<>>) = <<>>
                /\ ~should_skip_resource(resource_type, name)

\* C5: after a snapshot build in which every read succeeded, the snapshot
\* holds, for clusterroles and clusterrolebindings, exactly the listed
\* instances whose name starts with no system prefix.
C5_ClusterScopedCached ==
    (pc \in {"workloads", "done"} /\ faults = 0) =>
        \A resource_type \in {"clusterroles", "clusterrolebindings"} :
            \A name \in DOMAIN cluster[resource_type].obj :
                (name \in DOMAIN Cached(resource_type).obj)
                    <=> ~should_skip_cluster_resource(resource_type, name)

\* The place of a resource type in the closure's category order.
Category(resource_type) ==
    CASE resource_type \in Range(WORKLOAD_RESOURCES) -> 0
      [] resource_type = "configmaps" -> 1
      [] resource_type = "secrets" -> 2
      [] resource_type = "persistentvolumeclaims" -> 3
      [] resource_type = "serviceaccounts" -> 4
      [] resource_type = "roles" -> 5
      [] resource_type = "rolebindings" -> 6
      [] resource_type = "clusterroles" -> 7
      [] resource_type = "clusterrolebindings" -> 8
      [] resource_type = "services" -> 9
      [] resource_type \in {"ingresses", "routes"} -> 10
      [] resource_type = "horizontalpodautoscalers" -> 11
      [] resource_type = "networkpolicies" -> 12

\* C6: every closure, stored or being built, starts with the workload's own
\* ref, and no element of a later category precedes one of an earlier
\* category: configmaps, secrets, persistentvolumeclaims, serviceaccounts,
\* roles, rolebindings, clusterroles, clusterrolebindings, services,
\* ingresses/routes, the autoscaler, network policies.
C6_ClosureCategoryOrder ==
    /\ \A closure \in Closures :
        /\ Category(closure[1].type) = 0
        /\ \A i \in 2..Len(closure) : Category(closure[i].type) >= 1
        /\ \A i, j \in 1..Len(closure) :
              i < j => Category(closure[i].type) <= Category(closure[j].type)
    /\ \A w \in DOMAIN summary.obj : summary.obj[w][1].name = w
    /\ related_resources # <<>> => related_resources[1] = workload

\* C6's case: a stored closure that runs through at least eight categories.
C6_Witness ==
    \E w \in DOMAIN summary.obj :
        Cardinality({Category(summary.obj[w][i].type) : i \in 1..Len(summary.obj[w])}) >= 8

\* ----------------------------------------------- the sanitizer on its own
\* The state outside a call of one function on its own.
NoRun ==
    /\ cluster = EmptyDict
    /\ dry_run = TRUE
    /\ summary = EmptyODict
    /\ files = EmptyDict
    /\ dirs = {}
    /\ namespace_found = FALSE
    /\ unread = {}
    /\ types_left = <<>>
    /\ names = <<>>
    /\ workloads_left = <<>>
    /\ Idle
    /\ faults = 0

run_vars ==
    <<cluster, dry_run, summary, files, dirs, namespace_found, unread, types_left, names,
      workloads_left, process_vars, faults>>

\* The sequences over S of length at most n.
SeqsUpTo(S, n) == UNION {[1..k -> S] : k \in 0..n}

\* The mappings that give some of the keys a value.
Maps(keys, values) == UNION {[ks -> values] : ks \in SUBSET keys}

\* The objects handed to clean_yaml: metadata with or without a managed key,
\* annotations (absent, empty, system-generated, the user's, both) and labels
\* (absent, empty, set); status or none; no spec, or a spec with or without an
\* auto-assigned key and with ports (absent or a list of entries with or
\* without nodePort).
CleanInputs ==
    LET annotations == Maps({"kubectl.kubernetes.io/last-applied-configuration", "note"}, {"x"})
        labels == Maps({"app"}, {"web"})
        metas == {[name |-> <<"v">>] @@ m :
                    m \in {a @@ l @@ u :
                            a \in {EmptyDict} \cup {[annotations |-> x] : x \in annotations},
                            l \in {EmptyDict} \cup {[labels |-> x] : x \in labels},
                            u \in {EmptyDict, [uid |-> "uid"]}}}
        ports == SeqsUpTo({[port |-> 80], [port |-> 80, nodePort |-> 31000]}, MaxPorts)
        specs == {t @@ c @@ q :
                    t \in {[type |-> "NodePort"]},
                    c \in {EmptyDict, [clusterIP |-> "10.0.0.5"]},
                    q \in {EmptyDict} \cup {[ports |-> x] : x \in ports}}
    IN  {[metadata |-> m] @@ sp @@ st :
            m \in metas,
            sp \in {EmptyDict} \cup {[spec |-> x] : x \in specs},
            st \in {EmptyDict, [status |-> [loadBalancer |-> "x"]]}}

InitClean ==
    /\ NoRun
    /\ all_resources = EmptyDict
    /\ pc = "clean"
    /\ arg \in CleanInputs
    /\ ret = <<>>

\* clean_yaml(arg)
CleanOnce ==
    /\ pc = "clean"
    /\ ret = <<>>
    /\ ret' = <<clean_yaml(arg)>>
    /\ UNCHANGED <<run_vars, all_resources, pc, arg>>

\* clean_yaml(clean_yaml(arg))
CleanAgain ==
    /\ pc = "clean"
    /\ Len(ret) = 1
    /\ ret' = Append(ret, clean_yaml(ret[1]))
    /\ UNCHANGED <<run_vars, all_resources, pc, arg>>

NextClean == CleanOnce \/ CleanAgain

SpecClean == InitClean /\ [][NextClean]_vars

\* C7: clean_yaml(clean_yaml(O)) = clean_yaml(O) for every object O.
C7_CleanIdempotent ==
    (pc = "clean" /\ Len(ret) = 2) => ret[2] = ret[1]

\* C7's case: cleaned twice, an object whose annotations were all
\* system-generated (the map became empty and was removed), whose labels map
\* was empty, and which has a nodePort under spec.ports.
C7_Witness ==
    /\ pc = "clean"
    /\ Len(ret) = 2
    /\ "annotations" \in DOMAIN arg.metadata
    /\ Truthy(arg.metadata.annotations)
    /\ "annotations" \notin DOMAIN ret[2].metadata
    /\ "labels" \in DOMAIN arg.metadata
    /\ "labels" \notin DOMAIN ret[2].metadata
    /\ "spec" \in DOMAIN arg
    /\ "ports" \in DOMAIN arg.spec
    /\ \E i \in 1..Len(arg.spec.ports) : "nodePort" \in DOMAIN arg.spec.ports[i]
    /\ \A i \in 1..Len(ret[2].spec.ports) : "nodePort" \notin DOMAIN ret[2].spec.ports[i]

\* --------------------------------------------- the RBAC resolver on its own
\* A snapshot as the build leaves it: every namespace-scoped type has its
\* dict, empty but for the types given (clusterroles and clusterrolebindings
\* have none: the build never lists them).
Snapshot(given) ==
    [t \in Range(namespace_scoped) |-> IF t \in DOMAIN given THEN given[t] ELSE EmptyODict]

\* The subjects a binding may carry: the service account s with its namespace
\* omitted, given, or another one; another service account; a user called s.
SubjectShapes ==
    {[kind |-> "ServiceAccount", name |-> <<"s">>],
     [kind |-> "ServiceAccount", name |-> <<"s">>, namespace |-> NAMESPACE],
     [kind |-> "ServiceAccount", name |-> <<"s">>, namespace |-> "other"],
     [kind |-> "ServiceAccount", name |-> <<"o">>, namespace |-> NAMESPACE],
     [kind |-> "User", name |-> <<"s">>]}

RoleRefShapes ==
    {[kind |-> "Role", name |-> <<"r">>],
     [kind |-> "Role", name |-> <<"q">>],
     [kind |-> "ClusterRole", name |-> <<"c", "r">>]}

\* RoleBinding a in every shape; beside it no other, or RoleBinding b of
\* service account s (to Role r, to ClusterRole cr) or of another one; the
\* cached Roles none, r, or r and q.
RbacSnapshots ==
    LET as == {[metadata |-> Meta(<<"a">>, EmptyDict), subjects |-> subjects, roleRef |-> ref] :
                  subjects \in SeqsUpTo(SubjectShapes, MaxSubjects), ref \in RoleRefShapes}
        bs == {<<>>,
               << <<<<"b">>, Binding(<<"b">>, ServiceAccountSubject(<<None>>), "Role", <<"r">>)>> >>,
               << <<<<"b">>, Binding(<<"b">>, ServiceAccountSubject(<<None>>),
                                     "ClusterRole", <<"c", "r">>)>> >>,
               << <<<<"b">>, Binding(<<"b">>, ServiceAccountSubject(<<"other">>), "Role", <<"r">>)>> >>}
        roles == {<<>>, << <<"r">> >>, << <<"r">>, <<"q">> >>}
    IN  {Snapshot([serviceaccounts |-> ODictOf(<< <<<<"s">>, [metadata |-> Meta(<<"s">>, EmptyDict)]>> >>),
                   rolebindings |-> ODictOf(<< <<<<"a">>, a>> >> \o b),
                   roles |-> ODictOf([i \in 1..Len(r) |->
                                        <<r[i], [metadata |-> Meta(r[i], EmptyDict)]>>])]) :
            a \in as, b \in bs, r \in roles}

InitRbac ==
    /\ NoRun
    /\ all_resources \in RbacSnapshots
    /\ pc = "call"
    /\ arg = <<"s">>
    /\ ret = NoRbac

\* find_rbac_for_serviceaccount(arg)
CallFindRbac ==
    /\ pc = "call"
    /\ ret' = find_rbac_for_serviceaccount(arg)
    /\ pc' = "returned"
    /\ UNCHANGED <<run_vars, all_resources, arg>>

NextRbac == CallFindRbac

SpecRbac == InitRbac /\ [][NextRbac]_vars

\* C8: in each of the four lists find_rbac_for_serviceaccount returns, no
\* name appears twice.
C8_RbacListsHaveNoDuplicate ==
    pc = "returned" => \A t \in Range(RBAC_TYPES) : NoDuplicates(ret[t])

\* A binding has a subject of kind ServiceAccount, named sa, whose namespace
\* is the target namespace or omitted.
HasSubjectFor(binding, sa) ==
    \E i \in 1..Len(Get(binding, "subjects", <<>>)) :
        LET subject == binding.subjects[i]
        IN  /\ "kind" \in DOMAIN subject /\ subject.kind = "ServiceAccount"
            /\ "name" \in DOMAIN subject /\ subject.name = sa
            /\ ("namespace" \in DOMAIN subject => subject.namespace = NAMESPACE)

\* C9: a RoleBinding or ClusterRoleBinding is in the result for sa exactly
\* when it is in the snapshot and has a matching subject; and the Role that a
\* matching RoleBinding's roleRef names is in the result's roles exactly when
\* it is in the snapshot.
C9_RbacMembership ==
    pc = "returned" =>
        /\ \A t \in {"rolebindings", "clusterrolebindings"} :
              Range(ret[t]) = {name \in DOMAIN Cached(t).obj : HasSubjectFor(Cached(t).obj[name], arg)}
        /\ \A name \in DOMAIN Cached("rolebindings").obj :
              LET binding == Cached("rolebindings").obj[name]
              IN  (HasSubjectFor(binding, arg) /\ binding.roleRef.kind = "Role") =>
                      (binding.roleRef.name \in Range(ret.roles)
                          <=> binding.roleRef.name \in DOMAIN Cached("roles").obj)
        /\ Range(ret.roles) \subseteq DOMAIN Cached("roles").obj

\* C9's case: the resolver has returned for a snapshot whose only matching
\* RoleBinding names sa without a namespace and refers to a Role that is not
\* cached: the binding is in the result and roles is empty.
C9_Witness ==
    /\ pc = "returned"
    /\ ret.rolebindings = << <<"a">> >>
    /\ \A i \in 1..Len(Cached("rolebindings").obj[<<"a">>].subjects) :
          "namespace" \notin DOMAIN Cached("rolebindings").obj[<<"a">>].subjects[i]
    /\ Cached("rolebindings").obj[<<"a">>].roleRef = [kind |-> "Role", name |-> <<"q">>]
    /\ <<"q">> \notin DOMAIN Cached("roles").obj
    /\ <<"r">> \in DOMAIN Cached("roles").obj
    /\ ret.roles = <<>>

\* ------------------------------------------- the service matcher on its own
\* Label maps over two keys and two values, the empty one among them.
LabelMaps == Maps({"app", "tier"}, {"a", "b"})

\* A Deployment w whose spec.selector.matchLabels is any label map or is not
\* declared, with Services u and v whose spec.selector is any label map or
\* is not declared.
ServiceSnapshots ==
    LET workloads ==
            {[metadata |-> Meta(<<"w">>, EmptyDict), spec |-> [replicas |-> 1] @@ sel] :
                sel \in {EmptyDict} \cup {[selector |-> [matchLabels |-> l]] : l \in LabelMaps}}
        service_specs ==
            {[type |-> "ClusterIP"] @@ sel :
                sel \in {EmptyDict} \cup {[selector |-> l] : l \in LabelMaps}}
    IN  {Snapshot([deployments |-> ODictOf(<< <<<<"w">>, w>> >>),
                   services |-> ODictOf(<< <<<<"u">>, Plain(<<"u">>, u)>>,
                                           <<<<"v">>, Plain(<<"v">>, v)>> >>)]) :
            w \in workloads, u \in service_specs, v \in service_specs}

InitServices ==
    /\ NoRun
    /\ all_resources \in ServiceSnapshots
    /\ pc = "call"
    /\ arg = [type |-> "deployments", name |-> <<"w">>]
    /\ ret = <<>>

\* find_matching_services(workload_obj), for the cached workload arg names
CallFindMatchingServices ==
    /\ pc = "call"
    /\ ret' = find_matching_services(Cached(arg.type).obj[arg.name])
    /\ pc' = "returned"
    /\ UNCHANGED <<run_vars, all_resources, arg>>

NextServices == CallFindMatchingServices

SpecServices == InitServices /\ [][NextServices]_vars

\* The workload's spec.selector.matchLabels, and a service's spec.selector;
\* the empty map when not declared.
MatchLabelsOf(obj) ==
    IF "spec" \in DOMAIN obj /\ "selector" \in DOMAIN obj.spec
       /\ "matchLabels" \in DOMAIN obj.spec.selector
    THEN obj.spec.selector.matchLabels
    ELSE <<>>

SelectorOf(obj) ==
    IF "spec" \in DOMAIN obj /\ "selector" \in DOMAIN obj.spec THEN obj.spec.selector ELSE <<>>

\* C10: find_matching_services returns, each once, exactly the cached
\* Services whose selector is non-empty and has every key in the workload's
\* matchLabels with an equal value; none when the workload declares no
\* matchLabels.
C10_MatchingServices ==
    pc = "returned" =>
        LET labels == MatchLabelsOf(Cached(arg.type).obj[arg.name])
            services == Cached("services").obj
        IN  /\ Range(ret) =
                  {name \in DOMAIN services :
                      /\ DOMAIN SelectorOf(services[name]) # {}
                      /\ \A k \in DOMAIN SelectorOf(services[name]) :
                            k \in DOMAIN labels /\ labels[k] = SelectorOf(services[name])[k]}
            /\ NoDuplicates(ret)
            /\ (DOMAIN labels = {} => ret = <<>>)

\* C10's case: of two Services with a non-empty selector, one is returned
\* and the other, which selects on a key the workload labels lack, is not.
C10_Witness ==
    /\ pc = "returned"
    /\ ret = << <<"v">> >>
    /\ DOMAIN SelectorOf(Cached("services").obj[<<"u">>]) = {"app", "tier"}
    /\ DOMAIN MatchLabelsOf(Cached(arg.type).obj[arg.name]) = {"app"}
    /\ SelectorOf(Cached("services").obj[<<"u">>])["app"]
          = MatchLabelsOf(Cached(arg.type).obj[arg.name])["app"]

\* ------------------------------------------- the route resolver on its own
\* The rules of Ingress i: up to MaxRules rules, each without http or with up
\* to MaxPaths paths to Service u or v.  Route t points to u, to v, or has no
\* spec.to.
RouteSnapshots ==
    LET paths == SeqsUpTo({PathTo(<<"u">>), PathTo(<<"v">>)}, MaxPaths)
        rule_shapes == {[host |-> "h"]} \cup {[http |-> [paths |-> x]] : x \in paths}
        tos == {EmptyDict, [to |-> [kind |-> "Service", name |-> <<"u">>]],
                [to |-> [kind |-> "Service", name |-> <<"v">>]]}
    IN  {Snapshot([ingresses |-> ODictOf(<< <<<<"i">>, Plain(<<"i">>, [rules |-> rules])>> >>),
                   routes |-> ODictOf(<< <<<<"t">>, Plain(<<"t">>, to)>> >>)]) :
            rules \in SeqsUpTo(rule_shapes, MaxRules), to \in tos}

InitRoutes ==
    /\ NoRun
    /\ all_resources \in RouteSnapshots
    /\ pc = "call"
    /\ arg \in {<<>>, << <<"v">> >>, << <<"u">>, <<"v">> >>}
    /\ ret = <<>>

\* find_matching_ingresses_and_routes(arg)
CallFindRoutes ==
    /\ pc = "call"
    /\ ret' = find_matching_ingresses_and_routes(arg)
    /\ pc' = "returned"
    /\ UNCHANGED <<run_vars, all_resources, arg>>

NextRoutes == CallFindRoutes

SpecRoutes == InitRoutes /\ [][NextRoutes]_vars

\* The services an Ingress or Route of the snapshot points to.
BackendsOf(item) ==
    LET spec == Cached(item.type).obj[item.name].spec
    IN  IF item.type = "routes"
        THEN (IF "to" \in DOMAIN spec THEN {spec.to.name} ELSE {})
        ELSE UNION {{rule.http.paths[j].backend.service.name : j \in 1..Len(rule.http.paths)} :
                        rule \in {r \in Range(spec.rules) : "http" \in DOMAIN r}}

\* C11: find_matching_ingresses_and_routes(service_names) returns each Ingress
\* and each Route at most once, whatever the number of rules and paths that
\* match, and returns none that has no backend among service_names.
C11_RouteReturnedAtMostOnce ==
    pc = "returned" =>
        /\ NoDuplicates(ret)
        /\ \A k \in 1..Len(ret) : BackendsOf(ret[k]) \cap Range(arg) # {}

\* ------------------------------------------------ claims about failures
\* C12: when the namespace check has not returned True, the run is at its
\* start or has exited with status 1 (and makes no further step), and nothing
\* has been listed, cached, computed, created or written: the snapshot and
\* the summary are empty; and the run exits so for no other reason.
C12_AbortBeforeAnything ==
    /\ ~namespace_found =>
          /\ pc \in {"start", "aborted"}
          /\ DOMAIN all_resources = {}
          /\ summary = EmptyODict
          /\ DOMAIN files = {}
          /\ dirs = {}
          /\ unread = {}
          /\ types_left = <<>> /\ names = <<>> /\ workloads_left = <<>>
          /\ Idle
    /\ pc = "aborted" => (~namespace_found /\ ~ENABLED Next)

\* C12's case: the namespace check returned False and the run has exited.
C12_Witness ==
    /\ pc = "aborted"
    /\ ~namespace_found
    /\ DOMAIN all_resources = {}
    /\ summary.order = <<>>

\* C13: a failure of save_resource, in making the workload's directory or in
\* writing the file, never ends the run: the run is never left by an
\* exception of save_resource.
C13_SinkFailureNotFatal == pc # "save_resource raised"

\* C14: the snapshot build is never stopped by a failed listing or a failed
\* fetch: each of its steps leaves the run in the build or hands over to the
\* processing of the workloads; and once it is over the snapshot holds every
\* resource of the namespace that is no system default, is not managed, and
\* whose listing and fetch did not come back empty.
C14_BuildSurvivesFailedReads ==
    /\ [][pc = "cache" => pc' \in {"cache", "workloads"}]_vars
    /\ [](pc \in {"workloads", "done", "save_resource raised", "helmify_folder raised"} =>
            \A resource_type \in Range(namespace_scoped) :
                \A name \in DOMAIN cluster[resource_type].obj :
                    ( /\ ~should_skip_resource(resource_type, name)
                      /\ ~is_managed(cluster[resource_type].obj[name], TRUE, TRUE)
                      /\ [type |-> resource_type, name |-> NoName] \notin unread
                      /\ [type |-> resource_type, name |-> name] \notin unread )
                    => name \in DOMAIN Cached(resource_type).obj)

\* C14's case: the fetch of configmap c failed; the build went on, cached
\* deployment w and the secret listed after c, and the run computed the
\* closure of w, which lacks c.
C14_Witness ==
    /\ pc = "done"
    /\ [type |-> "configmaps", name |-> <<"c">>] \in unread
    /\ <<"c">> \notin DOMAIN Cached("configmaps").obj
    /\ <<"e">> \in DOMAIN Cached("secrets").obj
    /\ <<"w">> \in DOMAIN summary.obj
    /\ [type |-> "secrets", name |-> <<"e">>] \in Range(summary.obj[<<"w">>])
    /\ [type |-> "configmaps", name |-> <<"c">>] \notin Range(summary.obj[<<"w">>])

\* ---------------------------------------- the reference extractor on its own
\* The claims of the snapshot: two of template d and StatefulSet w, one named
\* like their prefix without its last dash, one of template d and StatefulSet
\* w-x, one of template e, and p.
ClaimNames ==
    << <<"d", "-", "w", "-", "0">>, <<"d", "-", "w", "-", "1">>, <<"d", "-", "w">>,
       <<"d", "-", "w", "-", "x", "-", "0">>, <<"e", "-", "w", "-", "0">>, <<"p">> >>

\* A workload w, StatefulSet or Deployment, with up to MaxTemplates claim
\* templates (named d, named e, or without a name) and a pod that mounts the
\* claim p or no volume, over a snapshot with any of the claims.
ExtractInputs ==
    LET templates == SeqsUpTo({[metadata |-> [name |-> <<"d">>]],
                               [metadata |-> [name |-> <<"e">>]],
                               [metadata |-> [labels |-> [app |-> "db"]]]}, MaxTemplates)
        volumes == {<<>>, << [name |-> "data", persistentVolumeClaim |-> [claimName |-> <<"p">>]] >>}
        obj(t, v) == [metadata |-> Meta(<<"w">>, EmptyDict),
                      spec |-> [template |-> [spec |-> [containers |-> << [name |-> "db"] >>,
                                                        volumes |-> v]],
                                volumeClaimTemplates |-> t]]
    IN  {[type |-> type, obj |-> obj(t, v), claims |-> claims] :
            type \in {"statefulsets", "deployments"}, t \in templates, v \in volumes,
            claims \in SUBSET Range(ClaimNames)}

\* The snapshot with the given claims, listed in the order of ClaimNames.
ClaimSnapshot(claims) ==
    LET listed(name) == name \in claims
        order == SelectSeq(ClaimNames, listed)
    IN  Snapshot([persistentvolumeclaims |->
                    ODictOf([i \in 1..Len(order) |->
                                <<order[i], Plain(order[i], [volumeName |-> "pv"])>>])])

InitExtract ==
    /\ NoRun
    /\ \E input \in ExtractInputs :
        /\ all_resources = ClaimSnapshot(input.claims)
        /\ arg = [type |-> input.type, obj |-> input.obj]
    /\ pc = "call"
    /\ ret = NothingReferenced

\* extract_referenced_resources(workload_obj, workload_type)
CallExtract ==
    /\ pc = "call"
    /\ ret' = extract_referenced_resources(arg.obj, arg.type)
    /\ pc' = "returned"
    /\ UNCHANGED <<run_vars, all_resources, arg>>

NextExtract == CallExtract

SpecExtract == InitExtract /\ [][NextExtract]_vars

\* name begins with prefix, character by character.
HasPrefix(name, prefix) ==
    /\ Len(name) >= Len(prefix)
    /\ \A i \in 1..Len(prefix) : name[i] = prefix[i]

\* The names of the claim templates of a workload.
TemplateNames(given) ==
    {given.spec.volumeClaimTemplates[i].metadata.name :
        i \in {k \in 1..Len(given.spec.volumeClaimTemplates) :
                 "name" \in DOMAIN given.spec.volumeClaimTemplates[k].metadata}}

\* The claims the volumes of the pod name.
VolumeClaims(given) ==
    {given.spec.template.spec.volumes[i].persistentVolumeClaim.claimName :
        i \in 1..Len(given.spec.template.spec.volumes)}

\* C15: for a StatefulSet W the PVC set extract_referenced_resources returns
\* is the claims its volumes name together with exactly the snapshot PVCs
\* whose name starts with "T-W-" for a claim template T of W; for a workload
\* of another kind it is the claims its volumes name, claim templates or not.
C15_TemplateClaimsByPrefix ==
    pc = "returned" =>
        ret.persistentvolumeclaims =
            VolumeClaims(arg.obj)
            \cup (IF arg.type = "statefulsets"
                  THEN {name \in DOMAIN Cached("persistentvolumeclaims").obj :
                          \E T \in TemplateNames(arg.obj) :
                              HasPrefix(name, T \o <<"-">> \o arg.obj.metadata.name \o <<"-">>)}
                  ELSE {})

\* C15's case: StatefulSet w with claim template d over a snapshot with the
\* claims d-w-0, d-w-1, d-w and p: the two that start with "d-w-" are
\* returned, the other two are not.
C15_Witness ==
    /\ pc = "returned"
    /\ arg.type = "statefulsets"
    /\ TemplateNames(arg.obj) = {<<"d">>}
    /\ VolumeClaims(arg.obj) = {}
    /\ {<<"d", "-", "w", "-", "0">>, <<"d", "-", "w", "-", "1">>, <<"d", "-", "w">>, <<"p">>}
          \subseteq DOMAIN Cached("persistentvolumeclaims").obj
    /\ <<"d", "-", "w", "-", "x", "-", "0">> \notin DOMAIN Cached("persistentvolumeclaims").obj
    /\ ret.persistentvolumeclaims = {<<"d", "-", "w", "-", "0">>, <<"d", "-", "w", "-", "1">>}

\* ------------------------------------- the closures over a given snapshot
\* The run once cache_all_resources has returned, every read having
\* succeeded, over a namespace that holds the objects of the snapshot and
\* nothing managed.
AfterBuild(snapshot) ==
    /\ cluster = snapshot @@ [clusterroles |-> EmptyODict, clusterrolebindings |-> EmptyODict]
    /\ all_resources = snapshot
    /\ dry_run \in BOOLEAN
    /\ dirs = IF dry_run THEN {} ELSE {EXPORT_DIR}
    /\ namespace_found = TRUE
    /\ unread = {}
    /\ summary = EmptyODict
    /\ files = EmptyDict
    /\ pc = "workloads"
    /\ types_left = <<>>
    /\ names = <<>>
    /\ workloads_left = workloads_of(WORKLOAD_RESOURCES)
    /\ Idle
    /\ faults = 0
    /\ arg = None
    /\ ret = None

\* export_all's loop over the workloads, and print_summary.
NextWorkloads ==
    \/ StartWorkload
    \/ VisitPending
    \/ ExtractReferenced
    \/ ResolveRbac
    \/ MatchServices
    \/ MatchRoutes
    \/ FindHpa
    \/ MatchNetworkPolicies
    \/ StoreSummary
    \/ HelmifyFolder
    \/ PrintSummary

\* A workload with a pod of one container that refers to nothing, with the
\* given labels in its selector and on its pod template.
Bare(name, match_labels, pod_labels) ==
    [metadata |-> Meta(name, EmptyDict),
     spec |-> [selector |-> [matchLabels |-> match_labels],
               template |-> [metadata |-> [labels |-> pod_labels],
                             spec |-> [containers |-> << [name |-> "app"] >>]]],
     status |-> [readyReplicas |-> 1]]

\* What an autoscaler may carry: no scaleTargetRef, or one that names w or x
\* and a kind (in capitals, in small letters, in the plural, another kind) or
\* no kind.
HpaSpecs ==
    LET kinds == {<<"D", "e", "p", "l", "o", "y", "m", "e", "n", "t">>,
                  <<"d", "e", "p", "l", "o", "y", "m", "e", "n", "t">>,
                  <<"D", "e", "p", "l", "o", "y", "m", "e", "n", "t", "s">>,
                  <<"S", "t", "a", "t", "e", "f", "u", "l", "S", "e", "t">>}
    IN  {[minReplicas |-> 1]}
        \cup {[scaleTargetRef |-> [name |-> n]] : n \in {<<"w">>, <<"x">>}}
        \cup {[scaleTargetRef |-> [name |-> n, kind |-> k]] : n \in {<<"w">>, <<"x">>}, k \in kinds}

\* Workload w, a Deployment or a StatefulSet, with autoscaler h and, or not,
\* autoscaler g after it.
HpaSnapshots ==
    {Snapshot(t :> ODictOf(<< <<<<"w">>, Bare(<<"w">>, [app |-> "web"], [app |-> "web"])>> >>)
              @@ [horizontalpodautoscalers |-> ODictOf(<< <<<<"h">>, Plain(<<"h">>, h)>> >> \o g)]) :
        t \in {"deployments", "statefulsets"},
        h \in HpaSpecs,
        g \in {<<>>} \cup {<< <<<<"g">>, Plain(<<"g">>, x)>> >> : x \in HpaSpecs}}

InitHpa == \E snapshot \in HpaSnapshots : AfterBuild(snapshot)

SpecHpa == InitHpa /\ [][NextWorkloads]_vars

\* The kind a workload type stands for, in small letters.
KindOfType ==
    [deployments |-> <<"d", "e", "p", "l", "o", "y", "m", "e", "n", "t">>,
     statefulsets |-> <<"s", "t", "a", "t", "e", "f", "u", "l", "s", "e", "t">>,
     cronjobs |-> <<"c", "r", "o", "n", "j", "o", "b">>,
     jobs |-> <<"j", "o", "b">>]

\* The autoscalers of the snapshot that target the workload.
HpasOf(ref) ==
    {h \in DOMAIN Cached("horizontalpodautoscalers").obj :
        LET spec == Cached("horizontalpodautoscalers").obj[h].spec
        IN  /\ "scaleTargetRef" \in DOMAIN spec
            /\ spec.scaleTargetRef.name = ref.name
            /\ "kind" \in DOMAIN spec.scaleTargetRef
            /\ Lower(spec.scaleTargetRef.kind) = KindOfType[ref.type]}

\* C16: every autoscaler in the closure of a workload is in the snapshot and
\* targets the workload by name and by kind (compared in small letters with
\* the workload kind in the singular); the closure holds exactly one
\* autoscaler when the snapshot has one that does, and none otherwise.
C16_ClosureAutoscaler ==
    \A w \in DOMAIN summary.obj :
        LET closure == summary.obj[w]
            held == {i \in 1..Len(closure) : closure[i].type = "horizontalpodautoscalers"}
        IN  /\ \A i \in held : closure[i].name \in HpasOf(closure[1])
            /\ Cardinality(held) = (IF HpasOf(closure[1]) = {} THEN 0 ELSE 1)

\* C16's case: autoscalers h and g both target workload w, one of them with
\* its kind in small letters; the stored closure of w holds h and not g.
C16_Witness ==
    /\ <<"w">> \in DOMAIN summary.obj
    /\ HpasOf(summary.obj[<<"w">>][1]) = {<<"h">>, <<"g">>}
    /\ Cached("horizontalpodautoscalers").obj[<<"h">>].spec.scaleTargetRef.kind
          # Cached("horizontalpodautoscalers").obj[<<"g">>].spec.scaleTargetRef.kind
    /\ [type |-> "horizontalpodautoscalers", name |-> <<"h">>] \in Range(summary.obj[<<"w">>])
    /\ [type |-> "horizontalpodautoscalers", name |-> <<"g">>] \notin Range(summary.obj[<<"w">>])

\* ------------------------------------ the network policy matcher on its own
\* Deployment w with selector app=a and any label map, or none, on its pod
\* template, with NetworkPolicies n and o whose spec has no podSelector, a
\* podSelector without matchLabels, or any label map as matchLabels.
NetworkPolicySnapshots ==
    LET workloads ==
            {[metadata |-> Meta(<<"w">>, EmptyDict),
              spec |-> [selector |-> [matchLabels |-> [app |-> "a"]],
                        template |-> [metadata |-> m,
                                      spec |-> [containers |-> << [name |-> "app"] >>]]]] :
                m \in {[name |-> "pod"]} \cup {[labels |-> l] : l \in LabelMaps}}
        policy_specs ==
            {[policyTypes |-> "Ingress"], [policyTypes |-> "Ingress", podSelector |-> EmptyDict]}
            \cup {[podSelector |-> [matchLabels |-> l]] : l \in LabelMaps}
    IN  {Snapshot([deployments |-> ODictOf(<< <<<<"w">>, w>> >>),
                   networkpolicies |-> ODictOf(<< <<<<"n">>, Plain(<<"n">>, n)>>,
                                                  <<<<"o">>, Plain(<<"o">>, o)>> >>)]) :
            w \in workloads, n \in policy_specs, o \in policy_specs}

InitNetworkPolicies ==
    /\ NoRun
    /\ all_resources \in NetworkPolicySnapshots
    /\ pc = "call"
    /\ arg = [type |-> "deployments", name |-> <<"w">>]
    /\ ret = <<>>

\* find_related_networkpolicies(workload_obj), for the cached workload arg names
CallFindNetworkPolicies ==
    /\ pc = "call"
    /\ ret' = find_related_networkpolicies(Cached(arg.type).obj[arg.name])
    /\ pc' = "returned"
    /\ UNCHANGED <<run_vars, all_resources, arg>>

NextNetworkPolicies == CallFindNetworkPolicies

SpecNetworkPolicies == InitNetworkPolicies /\ [][NextNetworkPolicies]_vars

\* The labels of the workload's pod template, and a policy's
\* spec.podSelector.matchLabels; the empty map when not declared.
PodLabelsOf(obj) ==
    IF "labels" \in DOMAIN obj.spec.template.metadata
    THEN obj.spec.template.metadata.labels
    ELSE <<>>

PodSelectorOf(obj) ==
    IF "podSelector" \in DOMAIN obj.spec /\ "matchLabels" \in DOMAIN obj.spec.podSelector
    THEN obj.spec.podSelector.matchLabels
    ELSE <<>>

\* C17: find_related_networkpolicies returns, each once, exactly the cached
\* NetworkPolicies whose podSelector.matchLabels is non-empty and has every
\* key among the labels of the workload's pod template with an equal value;
\* a policy with an empty or missing pod selector is never returned.
C17_MatchingNetworkPolicies ==
    pc = "returned" =>
        LET labels == PodLabelsOf(Cached(arg.type).obj[arg.name])
            policies == Cached("networkpolicies").obj
        IN  /\ Range(ret) =
                  {name \in DOMAIN policies :
                      /\ DOMAIN PodSelectorOf(policies[name]) # {}
                      /\ \A k \in DOMAIN PodSelectorOf(policies[name]) :
                            k \in DOMAIN labels /\ labels[k] = PodSelectorOf(policies[name])[k]}
            /\ NoDuplicates(ret)
            /\ \A name \in Range(ret) : DOMAIN PodSelectorOf(policies[name]) # {}

\* C17's case: the pod template has the labels app=b and tier=a, unlike the
\* workload's selector (app=a); policy n selects app=b and is returned, policy
\* o has an empty matchLabels and is not.
C17_Witness ==
    /\ pc = "returned"
    /\ PodLabelsOf(Cached(arg.type).obj[arg.name]) = [app |-> "b", tier |-> "a"]
    /\ PodSelectorOf(Cached("networkpolicies").obj[<<"n">>]) = [app |-> "b"]
    /\ "podSelector" \in DOMAIN Cached("networkpolicies").obj[<<"o">>].spec
    /\ DOMAIN PodSelectorOf(Cached("networkpolicies").obj[<<"o">>]) = {}
    /\ ret = << <<"n">> >>

\* ------------------------------------------ claims about the run's outputs
\* C18: when a run has completed, the summary holds for every workload of the
\* snapshot (every type and name among deployments, statefulsets, cronjobs
\* and jobs) an entry that is the closure of that workload, two workloads of
\* different types with the same name included.
C18_SummaryHasEveryWorkload ==
    pc = "done" =>
        \A resource_type \in Range(WORKLOAD_RESOURCES) :
            \A name \in DOMAIN Cached(resource_type).obj :
                \E w \in DOMAIN summary.obj :
                    summary.obj[w][1] = [type |-> resource_type, name |-> name]

\* C19: the objects written for one snapshot resource under the directories
\* of two workloads of a run are equal: the resource is sanitized for the
\* second workload as it was for the first.
C19_SharedResourceSanitizedAlike ==
    \A p, q \in DOMAIN files :
        (p.type = q.type /\ p.name = q.name) => files[p] = files[q]

\* C19's case: secret e, which carries a system-generated annotation, is in
\* the closures of deployment w and of statefulset db and has been written
\* under both directories.
C19_Witness ==
    /\ [dir |-> <<"w">>, type |-> "secrets", name |-> <<"e">>] \in DOMAIN files
    /\ [dir |-> <<"d", "b">>, type |-> "secrets", name |-> <<"e">>] \in DOMAIN files
    /\ "annotations" \in DOMAIN cluster.secrets.obj[<<"e">>].metadata
    /\ "annotations" \notin
          DOMAIN files[[dir |-> <<"d", "b">>, type |-> "secrets", name |-> <<"e">>]].metadata

\* ----------------------------------- a dry run, then a normal run after it
\* The program is started again without --dry-run when its dry run has
\* printed the summary, and meets the snapshot the dry run had: the dry
\* run's summary is kept in ret, and the second run is taken up where
\* export_all has made the export directory and cache_all_resources has
\* returned.
SecondRun ==
    /\ pc = "done"
    /\ dry_run
    /\ arg = None
    /\ arg' = "second run"
    /\ ret' = summary
    /\ dry_run' = FALSE
    /\ summary' = EmptyODict
    /\ dirs' = {EXPORT_DIR}
    /\ pc' = "workloads"
    /\ workloads_left' = workloads_of(WORKLOAD_RESOURCES)
    /\ UNCHANGED <<cluster, all_resources, files, namespace_found, unread, types_left, names,
                   process_vars, faults>>

InitTwoRuns == Init /\ dry_run

NextTwoRuns == Next \/ SecondRun

SpecTwoRuns == InitTwoRuns /\ [][NextTwoRuns]_vars

\* C20: a dry run writes no file, makes no directory and leaves every cached
\* object as it was fetched; and the normal run over the same snapshot ends
\* with the summary the dry run ended with: the same closure for every
\* workload, in the same order.
C20_DryRunAndNormalRunAgree ==
    /\ dry_run =>
          /\ DOMAIN files = {}
          /\ dirs = {}
          /\ \A resource_type \in DOMAIN all_resources :
                \A name \in DOMAIN all_resources[resource_type].obj :
                    all_resources[resource_type].obj[name] = cluster[resource_type].obj[name]
    /\ (arg = "second run" /\ pc = "done") => summary = ret

====
